---- MODULE Spec2Model ----
(***************************************************************************)
(* Account store and session state machine of PaperCompass (tools/app.py). *)
(*                                                                         *)
(* The three SQLite tables are sequences indexed by their AUTOINCREMENT    *)
(* row id.  A text value typed into a form is a sequence of tokens, where  *)
(* the token " " is a whitespace character and every other token is a run  *)
(* of non-blank characters, so that str.strip() is computed, not assumed.  *)
(* A password is an atomic string; its SHA-256 digest is the tagged pair   *)
(* <<"sha256", p>> (distinct passwords have distinct digests).             *)
(*                                                                         *)
(* The search pipeline (load_data_source, display_search_results and the   *)
(* keyword expansion) is modelled as functions; SpecSearch runs the search *)
(* of main() on the account state, SpecCalls applies the functions to      *)
(* arguments drawn from bounded sets.                                      *)
(*                                                                         *)
(* SpecFaults adds a password reset one of whose statements raises,        *)
(* SpecConnections follows the connection an account operation opens, and  *)
(* SpecRegister interleaves the steps of register_user in two sessions.    *)
(***************************************************************************)
EXTENDS Integers, Sequences, FiniteSets, TLC

\* ---------------------------------------------------------------- bounds
MaxUsers == 2
MaxResets == 2
MaxHistory == 1
MaxPapers == 2

\* ------------------------------------------------------- input alphabets
EmptyText == <<>>
AdminName == <<"admin">>
TypedUsernames == {EmptyText, <<"alice">>, <<" ", "alice">>, AdminName}
NewUsernames == {AdminName, <<"alice">>}
ResetUsernames == {EmptyText, <<"alice">>, <<" ", "alice">>}
TypedPasswords == {"", "admin123", "pw1"}
Sessions == {"s1"}
Pages == {"search", "auth", "history", "manage_users", "manage_resets", "train"}
AuthModes == {"login", "register"}
SearchKeywords == {<<"agent">>}
SEARCH_MODE_OR == "OR"
SEARCH_MODE_AND == "AND"
DATA_SEARCH_MODES == <<"all_papers", "specific_conferences">>
NoMode == "None"
DEFAULT_FIELDS == <<"title", "abstract">>
BAIDU_QF_KEY == "bce-v3"

\* -------------------------------------------------- user-facing messages
MsgNone == "none"
MsgEmptyFields == "username and password must not be empty"
MsgInvalidCredentials == "wrong username or password"
MsgWelcome == "welcome back"
MsgRegistered == "registered and logged in"
MsgAutoLoginFailed == "registered but automatic login failed"
MsgDuplicateUsername == "username already exists"
MsgEnterUsername == "please enter a username"
MsgResetSubmitted == "password reset request submitted"
MsgUnknownUser == "username does not exist"
MsgUserUpdated == "user updated"
MsgResetDone == "password reset"
MsgEmptyNewPassword == "new password must not be empty"
MsgChooseConference == "please choose a conference"
MsgCannotLoad == "cannot load the data"
MsgChooseFields == "please choose the fields to search"
MsgEnterKeywords == "please enter keywords"
MsgStatistics == "search statistics"
MsgResetError == "error while resetting the password"
MsgUncaught == "uncaught exception"

VARIABLES users, search_history, password_reset_requests, session, last, call

vars == <<users, search_history, password_reset_requests, session, last, call>>

\* ------------------------------------------------------- pure functions
hash_password(p) == <<"sha256", p>>

RECURSIVE lstrip(_)
lstrip(t) == IF t # <<>> /\ Head(t) = " " THEN lstrip(Tail(t)) ELSE t

RECURSIVE rstrip(_)
rstrip(t) ==
    IF t # <<>> /\ t[Len(t)] = " " THEN rstrip(SubSeq(t, 1, Len(t) - 1)) ELSE t

strip(t) == rstrip(lstrip(t))

\* Python truthiness of a typed text and of a password string
TruthyText(t) == t # EmptyText

TruthyStr(p) == p # ""

NoUser == [id |-> 0, username |-> EmptyText, is_admin |-> FALSE]

\* SELECT id FROM users WHERE username = ?   (0 when fetchone() is None)
UserIdByName(tbl, username) ==
    IF \E i \in 1..Len(tbl) : tbl[i].username = username
    THEN CHOOSE i \in 1..Len(tbl) : tbl[i].username = username
    ELSE 0

\* the UNIQUE constraint on users.username, seen by a row other than `self`
UsernameTaken(tbl, username, self) ==
    \E i \in 1..Len(tbl) : i # self /\ tbl[i].username = username

\* bug variant: the WHERE clause forgets the password column
authenticate_user_any_password(tbl, username, password) ==
    IF \E i \in 1..Len(tbl) : tbl[i].username = username
    THEN LET i == CHOOSE j \in 1..Len(tbl) : tbl[j].username = username
         IN [id |-> i, username |-> tbl[i].username, is_admin |-> tbl[i].is_admin # 0]
    ELSE NoUser

authenticate_user(tbl, username, password) ==
    IF \E i \in 1..Len(tbl) :
          tbl[i].username = username /\ tbl[i].password = hash_password(password)
    THEN LET i == CHOOSE j \in 1..Len(tbl) :
                     tbl[j].username = username
                     /\ tbl[j].password = hash_password(password)
         IN [id |-> i, username |-> tbl[i].username, is_admin |-> tbl[i].is_admin # 0]
    ELSE NoUser

\* bug variant: INSERT OR REPLACE overwrites the row of an existing username
register_user_replace(tbl, username, password) ==
    IF UsernameTaken(tbl, username, 0)
    THEN [ok |-> TRUE,
          users |-> [i \in 1..Len(tbl) |->
                        IF tbl[i].username = username
                        THEN [tbl[i] EXCEPT !.password = hash_password(password)]
                        ELSE tbl[i]]]
    ELSE [ok |-> TRUE,
          users |-> Append(tbl, [username |-> username,
                                 password |-> hash_password(password),
                                 is_admin |-> 0])]

\* bug variant: the new row is stored with the admin flag set
register_user_as_admin(tbl, username, password) ==
    IF UsernameTaken(tbl, username, 0)
    THEN [ok |-> FALSE, users |-> tbl]
    ELSE [ok |-> TRUE,
          users |-> Append(tbl, [username |-> username,
                                 password |-> hash_password(password),
                                 is_admin |-> 1])]

\* register_user: result of the INSERT (is_admin takes the column default 0)
register_user(tbl, username, password) ==
    IF UsernameTaken(tbl, username, 0)
    THEN [ok |-> FALSE, users |-> tbl]
    ELSE [ok |-> TRUE,
          users |-> Append(tbl, [username |-> username,
                                 password |-> hash_password(password),
                                 is_admin |-> 0])]

\* the seeding INSERT of init_db; IntegrityError is swallowed
seed_admin(tbl) ==
    IF UsernameTaken(tbl, AdminName, 0)
    THEN tbl
    ELSE Append(tbl, [username |-> AdminName,
                      password |-> hash_password("admin123"),
                      is_admin |-> 1])

\* a run of main() has executed init_db before any widget handler in it
Seeded == seed_admin(users) = users

\* what the last handler did: its name, the row id it worked on, the new
\* password an admin reset was given, and the message it displayed
OpWith(name, id, password, msg) ==
    [op |-> name, id |-> id, password |-> password, msg |-> msg]

Op(name, id, msg) == OpWith(name, id, "", msg)

\* the function call a function-level specification observes; none in the
\* state machine of the application
NoCall == [fn |-> "none", pc |-> "none"]

\* ----------------------------------------------------------------- Init
Init ==
    /\ users = seed_admin(<<>>)
    /\ search_history = <<>>
    /\ password_reset_requests = <<>>
    /\ session = [s \in Sessions |-> [user |-> NoUser, page |-> "search"]]
    /\ last = Op("init_db", 0, MsgNone)
    /\ call = NoCall

\* ------------------------------------------------- handlers as functions
\* bug variant: a failed login tells an unknown username from a wrong password
auth_submit_leaky(tbl, mode, typed_username, password) ==
    LET username == strip(typed_username) IN
    IF ~TruthyText(username) \/ ~TruthyStr(password)
    THEN [users |-> tbl, user |-> NoUser, msg |-> MsgEmptyFields]
    ELSE IF mode = "login"
    THEN LET user == authenticate_user(tbl, username, password) IN
         IF user # NoUser
         THEN [users |-> tbl, user |-> user, msg |-> MsgWelcome]
         ELSE [users |-> tbl, user |-> NoUser,
               msg |-> IF UsernameTaken(tbl, username, 0)
                       THEN MsgInvalidCredentials ELSE MsgUnknownUser]
    ELSE LET r == register_user(tbl, username, password) IN
         IF r.ok
         THEN LET user == authenticate_user(r.users, username, password) IN
              IF user # NoUser
              THEN [users |-> r.users, user |-> user, msg |-> MsgRegistered]
              ELSE [users |-> r.users, user |-> NoUser, msg |-> MsgAutoLoginFailed]
         ELSE [users |-> tbl, user |-> NoUser, msg |-> MsgDuplicateUsername]

\* auth_submit_handler: outcome for the form values of one click
auth_submit(tbl, mode, typed_username, password) ==
    LET username == strip(typed_username) IN
    IF ~TruthyText(username) \/ ~TruthyStr(password)
    THEN [users |-> tbl, user |-> NoUser, msg |-> MsgEmptyFields]
    ELSE IF mode = "login"
    THEN LET user == authenticate_user(tbl, username, password) IN
         IF user # NoUser
         THEN [users |-> tbl, user |-> user, msg |-> MsgWelcome]
         ELSE [users |-> tbl, user |-> NoUser, msg |-> MsgInvalidCredentials]
    ELSE LET r == register_user(tbl, username, password) IN
         IF r.ok
         THEN LET user == authenticate_user(r.users, username, password) IN
              IF user # NoUser
              THEN [users |-> r.users, user |-> user, msg |-> MsgRegistered]
              ELSE [users |-> r.users, user |-> NoUser, msg |-> MsgAutoLoginFailed]
         ELSE [users |-> tbl, user |-> NoUser, msg |-> MsgDuplicateUsername]

\* bug variant: the INSERT is not guarded by the lookup result
request_reset_orphan(tbl, reqs, reset_username) ==
    IF ~TruthyText(reset_username)
    THEN [requests |-> reqs, msg |-> MsgEnterUsername]
    ELSE LET user_id == UserIdByName(tbl, reset_username) IN
         [requests |-> Append(reqs, [user_id |-> user_id,
                                      username |-> reset_username,
                                      status |-> "Pending"]),
          msg |-> IF user_id # 0 THEN MsgResetSubmitted ELSE MsgUnknownUser]

\* bug variant: a user with a Pending request gets no second row
request_reset_dedup(tbl, reqs, reset_username) ==
    IF ~TruthyText(reset_username)
    THEN [requests |-> reqs, msg |-> MsgEnterUsername]
    ELSE LET user_id == UserIdByName(tbl, reset_username) IN
         IF user_id # 0
         THEN [requests |->
                  IF \E j \in 1..Len(reqs) :
                        reqs[j].user_id = user_id /\ reqs[j].status = "Pending"
                  THEN reqs
                  ELSE Append(reqs, [user_id |-> user_id,
                                     username |-> reset_username,
                                     status |-> "Pending"]),
               msg |-> MsgResetSubmitted]
         ELSE [requests |-> reqs, msg |-> MsgUnknownUser]

\* the "forgot password" button of user_authentication
request_reset(tbl, reqs, reset_username) ==
    IF ~TruthyText(reset_username)
    THEN [requests |-> reqs, msg |-> MsgEnterUsername]
    ELSE LET user_id == UserIdByName(tbl, reset_username) IN
         IF user_id # 0
         THEN [requests |-> Append(reqs, [user_id |-> user_id,
                                           username |-> reset_username,
                                           status |-> "Pending"]),
               msg |-> MsgResetSubmitted]
         ELSE [requests |-> reqs, msg |-> MsgUnknownUser]

\* bug variant: the table is cleared before the INSERT
save_search_history_latest_only(hist, user_id, params) ==
    <<[user_id |-> user_id,
       keyword |-> params.keyword,
       search_mode |-> params.search_mode,
       fields_to_search |-> params.fields_to_search,
       data_search_mode |-> params.data_search_mode]>>

\* save_search_history: one INSERT
save_search_history(hist, user_id, params) ==
    Append(hist, [user_id |-> user_id,
                  keyword |-> params.keyword,
                  search_mode |-> params.search_mode,
                  fields_to_search |-> params.fields_to_search,
                  data_search_mode |-> params.data_search_mode])

\* bug variant: the users table has no UNIQUE constraint on username
admin_save_user_without_unique(tbl, user_id, new_username, new_password, new_is_admin) ==
    [users |-> [tbl EXCEPT ![user_id] =
                   [username |-> new_username,
                    password |-> IF TruthyStr(new_password)
                                 THEN hash_password(new_password)
                                 ELSE @.password,
                    is_admin |-> IF new_is_admin THEN 1 ELSE 0]],
     msg |-> MsgUserUpdated]

\* bug variant: a duplicate username skips the rename only; the password
\* and the flag of the same save are still written
admin_save_user_partial(tbl, user_id, new_username, new_password, new_is_admin) ==
    IF new_username # tbl[user_id].username /\ UsernameTaken(tbl, new_username, user_id)
    THEN [users |-> [tbl EXCEPT ![user_id] =
                        [username |-> @.username,
                         password |-> IF TruthyStr(new_password)
                                      THEN hash_password(new_password)
                                      ELSE @.password,
                         is_admin |-> IF new_is_admin THEN 1 ELSE 0]],
          msg |-> MsgDuplicateUsername]
    ELSE [users |-> [tbl EXCEPT ![user_id] =
                        [username |-> new_username,
                         password |-> IF TruthyStr(new_password)
                                      THEN hash_password(new_password)
                                      ELSE @.password,
                         is_admin |-> IF new_is_admin THEN 1 ELSE 0]],
          msg |-> MsgUserUpdated]

\* the "save" button of admin_manage_users for the row user_id
admin_save_user(tbl, user_id, new_username, new_password, new_is_admin) ==
    IF new_username # tbl[user_id].username /\ UsernameTaken(tbl, new_username, user_id)
    THEN [users |-> tbl, msg |-> MsgDuplicateUsername]
    ELSE [users |-> [tbl EXCEPT ![user_id] =
                        [username |-> new_username,
                         password |-> IF TruthyStr(new_password)
                                      THEN hash_password(new_password)
                                      ELSE @.password,
                         is_admin |-> IF new_is_admin THEN 1 ELSE 0]],
          msg |-> MsgUserUpdated]

\* SELECT ... FROM password_reset_requests WHERE status = 'Pending'
PendingIds(reqs) == {i \in 1..Len(reqs) : reqs[i].status = "Pending"}

\* bug variant: the status UPDATE selects by user_id instead of by request id
admin_reset_password_all_of_user(tbl, reqs, req_id, new_password) ==
    IF TruthyStr(new_password)
    THEN LET user_id == reqs[req_id].user_id IN
         [users |-> [i \in 1..Len(tbl) |->
                        IF i = user_id
                        THEN [tbl[i] EXCEPT !.password = hash_password(new_password)]
                        ELSE tbl[i]],
          requests |-> [j \in 1..Len(reqs) |->
                           IF reqs[j].user_id = user_id
                           THEN [reqs[j] EXCEPT !.status = "Completed"]
                           ELSE reqs[j]],
          msg |-> MsgResetDone]
    ELSE [users |-> tbl, requests |-> reqs, msg |-> MsgEmptyNewPassword]

\* bug variant: the request is completed without the password UPDATE
admin_reset_password_status_only(tbl, reqs, req_id, new_password) ==
    IF TruthyStr(new_password)
    THEN [users |-> tbl,
          requests |-> [reqs EXCEPT ![req_id].status = "Completed"],
          msg |-> MsgResetDone]
    ELSE [users |-> tbl, requests |-> reqs, msg |-> MsgEmptyNewPassword]

\* bug variant: the emptiness test on the new password is missing
admin_reset_password_accepts_empty(tbl, reqs, req_id, new_password) ==
    LET user_id == reqs[req_id].user_id IN
    [users |-> [i \in 1..Len(tbl) |->
                   IF i = user_id
                   THEN [tbl[i] EXCEPT !.password = hash_password(new_password)]
                   ELSE tbl[i]],
     requests |-> [reqs EXCEPT ![req_id].status = "Completed"],
     msg |-> MsgResetDone]

\* the "reset password" button of admin_manage_password_resets for request req_id
admin_reset_password(tbl, reqs, req_id, new_password) ==
    IF TruthyStr(new_password)
    THEN LET user_id == reqs[req_id].user_id IN
         [users |-> [i \in 1..Len(tbl) |->
                        IF i = user_id
                        THEN [tbl[i] EXCEPT !.password = hash_password(new_password)]
                        ELSE tbl[i]],
          requests |-> [reqs EXCEPT ![req_id].status = "Completed"],
          msg |-> MsgResetDone]
    ELSE [users |-> tbl, requests |-> reqs, msg |-> MsgEmptyNewPassword]

\* ------------------------------------------------ search pipeline: values
\* A value of a record field is tagged with its Python type; s is what
\* str() gives for it.  PyNone is what dict.get() gives for an absent key.
PyNone == [t |-> "NoneType", s |-> "None"]

PyStr(x) == [t |-> "str", s |-> x]

PyBool(x) == [t |-> "bool", s |-> x]

\* str.lower() on the words that occur
lower(w) ==
    CASE w = "True" -> "true"
      [] w = "False" -> "false"
      [] w = "Agent" -> "agent"
      [] w = "Retrieval" -> "retrieval"
      [] OTHER -> w

\* the conference directories found under PROJECT_DIR
CONFERENCES == <<"ICLR", "NeurIPS">>

\* records of the JSON files; title is the sequence of the words of the text
PaperICLR1 ==
    [id |-> "i1", status |-> PyStr("Accept"), award |-> PyBool("True"),
     title |-> <<"retrieval", "agent">>]

PaperICLR2 ==
    [id |-> "i2", status |-> PyStr("Reject"), award |-> PyBool("False"),
     title |-> <<"agent">>]

PaperNeurIPS1 ==
    [id |-> "n1", status |-> PyNone, award |-> PyStr("True"),
     title |-> <<"retrieval">>]

PaperNeurIPS2 ==
    [id |-> "n2", status |-> PyStr("Withdraw"), award |-> PyNone,
     title |-> <<"Agent">>]

\* a conference whose directory or JSON file is absent, and one whose
\* latest JSON file holds these records
Missing == [exists |-> FALSE, records |-> <<>>]

File(records) == [exists |-> TRUE, records |-> records]

\* what the data directory can hold, per conference
Disks ==
    {[c \in {"ICLR", "NeurIPS"} |->
         IF c = "ICLR" THEN iclr ELSE neurips] :
       iclr \in {Missing, File(<<PaperICLR1, PaperICLR2>>)},
       neurips \in {Missing, File(<<>>),
                    File(<<PaperNeurIPS1, PaperNeurIPS2>>)}}

\* paper_item['source'] = conf
tag_source(paper, conf) ==
    [id |-> paper.id, status |-> paper.status, award |-> paper.award,
     title |-> paper.title, source |-> conf]

\* the tagged records a collection can be made of
Papers ==
    {tag_source(PaperICLR1, "ICLR"), tag_source(PaperICLR2, "ICLR"),
     tag_source(PaperNeurIPS1, "NeurIPS"), tag_source(PaperNeurIPS2, "NeurIPS")}

\* record collections of at most MaxPapers records
Collections == UNION {[1..n -> Papers] : n \in 0..MaxPapers}

\* st.session_state.get('data') when nothing stored the key
NoData == <<>>

\* st.session_state.get('conference_categories', {}) when nothing stored it:
\* no category is selected for any conference
NoSelection == [c \in {"ICLR", "NeurIPS"} |-> <<>>]

\* load_conference_categories when no catalog file exists
NoCatalog == [c \in {"ICLR", "NeurIPS"} |-> <<>>]

\* load_conference_data: None (after st.error) when the directory or the
\* file is absent, the records of the file otherwise
load_conference_data(disk, conf) ==
    IF ~disk[conf].exists
    THEN [data |-> <<>>, error |-> TRUE]
    ELSE [data |-> disk[conf].records, error |-> FALSE]

\* "+".join(conferences)
RECURSIVE join_plus(_)
join_plus(confs) ==
    IF confs = <<>> THEN <<>>
    ELSE IF Len(confs) = 1 THEN confs
    ELSE <<Head(confs), "+">> \o join_plus(Tail(confs))

\* the loop of load_data_source over the conferences confs
RECURSIVE load_conferences(_, _)
load_conferences(disk, confs) ==
    IF confs = <<>>
    THEN [data |-> <<>>, errors |-> {}]
    ELSE LET conf == Head(confs)
             conf_data == load_conference_data(disk, conf)
             rest == load_conferences(disk, Tail(confs)) IN
         [data |-> [i \in 1..Len(conf_data.data) |->
                       tag_source(conf_data.data[i], conf)] \o rest.data,
          errors |-> (IF conf_data.error THEN {conf} ELSE {}) \cup rest.errors]

\* load_data_source: data, source and key_fields_filters, together with the
\* conferences for which load_conference_data surfaced an error
load_data_source(disk, data_search_mode, conferences) ==
    IF data_search_mode = DATA_SEARCH_MODES[1]
    THEN LET l == load_conferences(disk, CONFERENCES) IN
         [data |-> l.data, source |-> <<"All Papers">>,
          key_fields_filters |-> <<>>, errors |-> l.errors]
    ELSE IF data_search_mode = DATA_SEARCH_MODES[2]
    THEN LET l == load_conferences(disk, conferences) IN
         [data |-> l.data, source |-> join_plus(conferences),
          key_fields_filters |-> <<>>, errors |-> l.errors]
    ELSE [data |-> <<>>, source |-> <<>>, key_fields_filters |-> <<>>,
          errors |-> {}]


\* ------------------------------------------- search pipeline: filtering
\* keyword.replace(',', ' ')
replace_comma(t) == [i \in 1..Len(t) |-> IF t[i] = "," THEN " " ELSE t[i]]

\* str.split() of a text in which words are separated by blanks
split(t) == SelectSeq(t, LAMBDA c : c # " ")

\* [k.strip() for k in keyword.replace(',', ' ').split() if k.strip()]
keywords_list(keyword) == split(replace_comma(keyword))

RejectedStatuses == {"Withdraw", "Reject", "Desk Reject"}

\* item.get('status') not in ['Withdraw', 'Reject', 'Desk Reject']
not_rejected(item) ==
    ~(item.status.t = "str" /\ item.status.s \in RejectedStatuses)

\* variant: only accepted records are kept
status_filter_accepted_only(data) ==
    SelectSeq(data, LAMBDA item : item.status = PyStr("Accept"))

\* the list comprehension of the branch without keywords
status_filter(data) == SelectSeq(data, not_rejected)

\* the words of the field `field` of a record ("title" is the one text
\* field the records carry)
field_words(item, field) == IF field = "title" THEN item.title ELSE <<>>

\* a token is contained in one of the fields, compared case-insensitively
token_matches(item, fields, token) ==
    \E i \in 1..Len(fields) :
        \E j \in 1..Len(field_words(item, fields[i])) :
            lower(field_words(item, fields[i])[j]) = lower(token)

\* variant: the two modes are exchanged
record_matches_swapped(item, tokens, fields, search_mode) ==
    IF search_mode = SEARCH_MODE_OR
    THEN \A k \in 1..Len(tokens) : token_matches(item, fields, tokens[k])
    ELSE \E k \in 1..Len(tokens) : token_matches(item, fields, tokens[k])

\* OR: some token is contained in some field; AND: every token is
\* contained in some field
record_matches(item, tokens, fields, search_mode) ==
    IF search_mode = SEARCH_MODE_AND
    THEN \A k \in 1..Len(tokens) : token_matches(item, fields, tokens[k])
    ELSE \E k \in 1..Len(tokens) : token_matches(item, fields, tokens[k])

\* extract.filter_data: the status-filtered collection and its
\* keyword-matched subset; no match is reported without tokens or fields
filter_data(data, keyword, fields_to_search, search_mode, include_rejected) ==
    LET tokens == keywords_list(keyword)
        status_filtered == IF include_rejected THEN data ELSE status_filter(data)
    IN [status_filtered |-> status_filtered,
        filtered |->
            IF tokens = <<>> \/ fields_to_search = <<>>
            THEN <<>>
            ELSE SelectSeq(status_filtered,
                           LAMBDA item : record_matches(item, tokens,
                                             fields_to_search, search_mode))]

\* extract.count_results: the three-way tally
count_results(data, status_filtered, filtered) ==
    [total_count |-> Len(data),
     status_filtered_count |-> Len(status_filtered),
     matched_count |-> Len(filtered)]

\* paper.get(field) for the key fields
get_field(paper, field) ==
    CASE field = "award" -> paper.award
      [] field = "status" -> paper.status
      [] OTHER -> PyNone

\* variant: an award of type bool is compared like any other value
passes_allow_list_exact(paper, entry) ==
    IF entry.conf = paper.source /\ entry.values # <<>>
    THEN \E i \in 1..Len(entry.values) :
             entry.values[i] = get_field(paper, entry.field)
    ELSE TRUE

\* one allow-list of key_fields_filters: the values selected for one field
\* of one conference; a record of another conference or an empty allow-list
\* passes, an award of type bool is compared as a lower-cased string
passes_allow_list(paper, entry) ==
    IF entry.conf = paper.source /\ entry.values # <<>>
    THEN LET value == get_field(paper, entry.field) IN
         IF entry.field = "award" /\ value.t = "bool"
         THEN \E i \in 1..Len(entry.values) :
                  lower(entry.values[i].s) = lower(value.s)
         ELSE \E i \in 1..Len(entry.values) : entry.values[i] = value
    ELSE TRUE

\* the key-field step
key_fields_step(filtered, key_fields_filters, data_search_mode) ==
    IF key_fields_filters # <<>> /\ filtered # <<>>
       /\ data_search_mode = DATA_SEARCH_MODES[2]
    THEN SelectSeq(filtered,
                   LAMBDA paper :
                       \A e \in 1..Len(key_fields_filters) :
                           passes_allow_list(paper, key_fields_filters[e]))
    ELSE filtered

\* variant: the union over every category of the catalog
paper_ids_in_all_cats(selected, categories_data) ==
    UNION {categories_data[c].ids : c \in 1..Len(categories_data)}

\* paper_ids_in_selected_cats: the union over the selected categories that
\* the catalog knows
paper_ids_in_selected_cats(selected, categories_data) ==
    UNION {categories_data[c].ids :
             c \in {c \in 1..Len(categories_data) :
                      \E k \in 1..Len(selected) :
                          selected[k] = categories_data[c].name}}

\* the decision of the category step for one record
passes_categories(paper, selection, catalog) ==
    IF selection[paper.source] = <<>> THEN TRUE
    ELSE IF catalog[paper.source] = <<>> THEN TRUE
    ELSE paper.id \in paper_ids_in_selected_cats(selection[paper.source],
                                                 catalog[paper.source])

\* the category step
category_step(filtered, selection, catalog, data_search_mode) ==
    IF data_search_mode = DATA_SEARCH_MODES[2]
       /\ (\E c \in DOMAIN selection : selection[c] # <<>>)
       /\ filtered # <<>>
    THEN SelectSeq(filtered,
                   LAMBDA paper : passes_categories(paper, selection, catalog))
    ELSE filtered

\* what display_search_results rendered
View(msg, data, status_filtered, matched, after_key_fields, filtered, counts) ==
    [msg |-> msg, data |-> data, status_filtered |-> status_filtered,
     matched |-> matched, after_key_fields |-> after_key_fields,
     filtered |-> filtered, counts |-> counts]

NoResults(msg) ==
    View(msg, <<>>, <<>>, <<>>, <<>>, <<>>, count_results(<<>>, <<>>, <<>>))

\* data = st.session_state.get('data'): the collection display_search_results
\* works on is the one stored in the session, which replaces the argument
session_data_for(data, session_data) == session_data

\* variant: without keywords every record counts as a match
keyword_stage_all_match(data, search_params) ==
    IF keywords_list(search_params.keyword) # <<>>
    THEN filter_data(data, search_params.keyword, search_params.fields_to_search,
                     search_params.search_mode, search_params.include_rejected)
    ELSE IF search_params.include_rejected
    THEN [status_filtered |-> data, filtered |-> data]
    ELSE [status_filtered |-> status_filter(data), filtered |-> data]

\* the first stage: filter_data with keywords, the status filter without
keyword_stage(data, search_params) ==
    IF keywords_list(search_params.keyword) # <<>>
    THEN filter_data(data, search_params.keyword, search_params.fields_to_search,
                     search_params.search_mode, search_params.include_rejected)
    ELSE IF search_params.include_rejected
    THEN [status_filtered |-> data, filtered |-> data]
    ELSE [status_filtered |-> status_filter(data),
          filtered |-> status_filter(data)]

\* display_search_results; selection is the value of
\* st.session_state.get('conference_categories', {}), catalog what
\* load_conference_categories returns per conference
display_search_results(data, source, search_params, session_data, selection, catalog) ==
    LET data_used == session_data_for(data, session_data)
        keywords == keywords_list(search_params.keyword)
        fields_to_search == search_params.fields_to_search
    IN  IF source = <<>> THEN NoResults(MsgChooseConference)
        ELSE IF data_used = <<>> THEN NoResults(MsgCannotLoad)
        ELSE IF fields_to_search = <<>> /\ keywords # <<>>
        THEN NoResults(MsgChooseFields)
        ELSE IF fields_to_search # <<>> /\ keywords = <<>>
        THEN NoResults(MsgEnterKeywords)
        ELSE
        LET first == keyword_stage(data_used, search_params)
            after_key_fields == key_fields_step(first.filtered,
                                    search_params.key_fields_filters,
                                    search_params.data_search_mode)
            after_categories == category_step(after_key_fields,
                                    selection, catalog,
                                    search_params.data_search_mode)
            counts == count_results(data_used, first.status_filtered,
                                    after_categories)
        IN View(MsgStatistics, data_used, first.status_filtered,
                first.filtered, after_key_fields, after_categories,
                [total_count |-> Len(data_used),
                 status_filtered_count |-> counts.status_filtered_count,
                 matched_count |-> Len(after_categories)])

\* -------------------------------------------------- keyword expansion
\* A parsed JSON object is the sequence of its members.  A member is a
\* string, a list (described by its first element) or something else; the
\* first element of a list is absent, a string, an object or something else.
JNoFirst == [t |-> "absent", s |-> <<>>, sub |-> <<>>]

JStr(k, text) == [k |-> k, t |-> "str", s |-> text, first |-> JNoFirst]

JList(k, first) == [k |-> k, t |-> "list", s |-> <<>>, first |-> first]

JOther(k) == [k |-> k, t |-> "other", s |-> <<>>, first |-> JNoFirst]

JFirstStr(text) == [t |-> "str", s |-> text, sub |-> <<>>]

JFirstDict(sub) == [t |-> "dict", s |-> <<>>, sub |-> sub]

JSub(k, t, text) == [k |-> k, t |-> t, s |-> text]

\* what requests.post can end in: an exception, or a response with a status
\* code whose body parses (json_ok) to the object jr
Transport == [kind |-> "exception", status_code |-> 0, json_ok |-> FALSE, jr |-> <<>>]

Http(status_code, json_ok, jr) ==
    [kind |-> "response", status_code |-> status_code, json_ok |-> json_ok,
     jr |-> jr]

\* the result of a Python call: a text, None, or an exception
Returned(text) == [kind |-> "text", text |-> text]

ReturnedNone == [kind |-> "none", text |-> <<>>]

Raised == [kind |-> "raise", text |-> <<>>]

\* index of the member named k, 0 when absent
member(obj, k) ==
    IF \E i \in 1..Len(obj) : obj[i].k = k
    THEN CHOOSE i \in 1..Len(obj) :
             obj[i].k = k /\ \A j \in 1..(i - 1) : obj[j].k # k
    ELSE 0

\* str(jr): the object printed with its keys
str_json(jr) == <<"{">> \o [i \in 1..Len(jr) |-> jr[i].k] \o <<"}">>

\* for sub in ("content", "text", "output"): if sub in candidate:
\*     return candidate[sub].strip()
RECURSIVE from_candidate(_, _)
from_candidate(candidate, subs) ==
    IF subs = <<>> THEN ReturnedNone
    ELSE LET i == member(candidate, Head(subs)) IN
         IF i = 0 THEN from_candidate(candidate, Tail(subs))
         ELSE IF candidate[i].t = "str" THEN Returned(strip(candidate[i].s))
         ELSE Raised

\* for k in ("result", "output", "text", "choices", "data"): ...
\* return str(jr)
RECURSIVE extract_text(_, _)
extract_text(jr, keys) ==
    IF keys = <<>> THEN Returned(str_json(jr))
    ELSE LET i == member(jr, Head(keys))
             rest == extract_text(jr, Tail(keys)) IN
         IF i = 0 THEN rest
         ELSE IF jr[i].t = "list" /\ jr[i].first.t # "absent"
         THEN IF jr[i].first.t = "dict"
              THEN LET r == from_candidate(jr[i].first.sub,
                                           <<"content", "text", "output">>) IN
                   IF r = ReturnedNone THEN rest ELSE r
              ELSE IF jr[i].first.t = "str"
              THEN Returned(strip(jr[i].first.s))
              ELSE rest
         ELSE IF jr[i].t = "str" THEN Returned(strip(jr[i].s))
         ELSE rest

\* call_baidu_qf_generate: every exception inside the try block gives None
call_baidu_qf_generate(natural_query, key, response) ==
    IF key = "" THEN ReturnedNone
    ELSE IF response.kind = "exception" THEN ReturnedNone
    ELSE IF response.status_code # 200 THEN ReturnedNone
    ELSE IF ~response.json_ok THEN ReturnedNone
    ELSE LET r == extract_text(response.jr,
                               <<"result", "output", "text", "choices", "data">>) IN
         IF r = Raised THEN ReturnedNone ELSE r

\* ", ".join(tokens)
RECURSIVE join_comma(_)
join_comma(tokens) ==
    IF Len(tokens) <= 1 THEN tokens
    ELSE <<Head(tokens), ",", " ">> \o join_comma(Tail(tokens))

\* the local tokenizer of generate_keywords_via_model
local_tokens(natural_query) ==
    LET words == split(replace_comma(natural_query)) IN
    join_comma([i \in 1..Len(words) |-> lower(words[i])])

\* generate_keywords_via_model
generate_keywords_via_model(natural_query, baidu_key, response) ==
    IF ~TruthyText(natural_query) \/ strip(natural_query) = EmptyText
    THEN Returned(EmptyText)
    ELSE LET result == IF TruthyStr(baidu_key)
                       THEN call_baidu_qf_generate(natural_query, baidu_key, response)
                       ELSE ReturnedNone IN
         IF result.kind = "text" /\ TruthyText(result.text)
         THEN Returned(strip(result.text))
         ELSE Returned(local_tokens(natural_query))

\* ---------------------------------------------------------------- actions
SearchParams ==
    [keyword : SearchKeywords,
     search_mode : {SEARCH_MODE_OR},
     fields_to_search : {<<"title">>},
     data_search_mode : {DATA_SEARCH_MODES[1]},
     include_rejected : {FALSE},
     use_nl : {FALSE}]

SetPage(s, p) == session' = [session EXCEPT ![s].page = p]

\* main() re-executed by any widget interaction: init_db
init_db(s) ==
    /\ Len(seed_admin(users)) <= MaxUsers
    /\ users' = seed_admin(users)
    /\ last' = Op("init_db", 0, MsgNone)
    /\ UNCHANGED <<search_history, password_reset_requests, session, call>>

go_to_auth(s) ==
    /\ session[s].user = NoUser
    /\ SetPage(s, "auth")
    /\ last' = Op("nav", 0, MsgNone)
    /\ UNCHANGED <<users, search_history, password_reset_requests, call>>

auth_submit_handler(s, mode, typed_username, password) ==
    /\ session[s].page = "auth"
    /\ session[s].user = NoUser
    /\ LET r == auth_submit(users, mode, typed_username, password) IN
       /\ Len(r.users) <= MaxUsers
       /\ users' = r.users
       /\ session' = IF r.user # NoUser
                     THEN [session EXCEPT ![s] = [user |-> r.user, page |-> "search"]]
                     ELSE session
       /\ last' = Op(mode, r.user.id, r.msg)
    /\ UNCHANGED <<search_history, password_reset_requests, call>>

\* bug variant: logging out leaves the page where it was
logout_keeps_page(s) ==
    /\ session[s].user # NoUser
    /\ session' = [session EXCEPT ![s].user = NoUser]
    /\ last' = Op("nav", 0, MsgNone)
    /\ UNCHANGED <<users, search_history, password_reset_requests, call>>

logout(s) ==
    /\ session[s].user # NoUser
    /\ session' = [session EXCEPT ![s] = [user |-> NoUser, page |-> "search"]]
    /\ last' = Op("nav", 0, MsgNone)
    /\ UNCHANGED <<users, search_history, password_reset_requests, call>>

go_to_page(s, p) ==
    /\ session[s].user # NoUser
    /\ session[s].page # "auth"
    /\ \/ p = "history"
       \/ p \in {"manage_users", "manage_resets"} /\ session[s].user.is_admin
    /\ SetPage(s, p)
    /\ last' = Op("nav", 0, MsgNone)
    /\ UNCHANGED <<users, search_history, password_reset_requests, call>>

back_to_search(s) ==
    /\ Seeded
    /\ session[s].page \in {"manage_users", "manage_resets", "history"}
    /\ SetPage(s, "search")
    /\ last' = Op("nav", 0, MsgNone)
    /\ UNCHANGED <<users, search_history, password_reset_requests, call>>

reset_req_main(s, reset_username) ==
    /\ Seeded
    /\ session[s].page = "auth"
    /\ session[s].user = NoUser
    /\ LET r == request_reset(users, password_reset_requests, reset_username) IN
       /\ Len(r.requests) <= MaxResets
       /\ password_reset_requests' = r.requests
       /\ last' = Op("request_reset", Len(r.requests), r.msg)
    /\ UNCHANGED <<users, search_history, session, call>>

admin_manage_users(s, user_id, new_username, new_password, new_is_admin) ==
    /\ Seeded
    /\ session[s].page = "manage_users"
    /\ session[s].user # NoUser
    /\ session[s].user.is_admin
    /\ user_id \in 1..Len(users)
    /\ LET r == admin_save_user(users, user_id, new_username, new_password,
                                new_is_admin) IN
       /\ users' = r.users
       /\ last' = Op("admin_save", user_id, r.msg)
    /\ UNCHANGED <<search_history, password_reset_requests, session, call>>

admin_manage_password_resets(s, req_id, new_password) ==
    /\ Seeded
    /\ session[s].page = "manage_resets"
    /\ session[s].user # NoUser
    /\ session[s].user.is_admin
    /\ req_id \in PendingIds(password_reset_requests)
    /\ LET r == admin_reset_password(users, password_reset_requests, req_id,
                                     new_password) IN
       /\ users' = r.users
       /\ password_reset_requests' = r.requests
       /\ last' = OpWith("admin_reset", req_id, new_password, r.msg)
    /\ UNCHANGED <<search_history, session, call>>

\* the sidebar values main() hands on, with key_fields_filters set
with_filters(search_params, key_fields_filters) ==
    [keyword |-> search_params.keyword,
     search_mode |-> search_params.search_mode,
     fields_to_search |-> search_params.fields_to_search,
     data_search_mode |-> search_params.data_search_mode,
     include_rejected |-> search_params.include_rejected,
     use_nl |-> search_params.use_nl,
     key_fields_filters |-> key_fields_filters]

\* main(), use_nl: the keyword becomes the generated keywords (if any) and
\* the fields are extended by the full text
expand_query(search_params, response) ==
    IF search_params.use_nl
    THEN LET nl_keywords == generate_keywords_via_model(search_params.keyword,
                                BAIDU_QF_KEY, response).text
             fields == IF search_params.fields_to_search # <<>>
                       THEN search_params.fields_to_search
                       ELSE DEFAULT_FIELDS
         IN [search_params EXCEPT
                !.keyword = IF TruthyText(nl_keywords) THEN nl_keywords ELSE @,
                !.fields_to_search =
                    IF \E i \in 1..Len(fields) : fields[i] = "full_text"
                    THEN fields ELSE Append(fields, "full_text")]
    ELSE search_params

\* what the search of main() renders: load_data_source, then
\* display_search_results; nothing stores 'data' or 'conference_categories'
\* in the session
search_view(search_params, disk, conferences, response) ==
    LET expanded == expand_query(search_params, response)
        loaded == load_data_source(disk, expanded.data_search_mode, conferences)
    IN display_search_results(loaded.data, loaded.source,
                              with_filters(expanded, loaded.key_fields_filters),
                              NoData, NoSelection, NoCatalog)

\* the "search papers" button of main(); history is saved for a logged-in
\* user once display_search_results has returned
search(s, search_params, disk, conferences, response) ==
    /\ Seeded
    /\ session[s].page \in {"search", "train"}
    /\ search_history' =
           IF session[s].user # NoUser
           THEN save_search_history(search_history, session[s].user.id,
                    [expand_query(search_params, response) EXCEPT
                        !.keyword = search_params.keyword])
           ELSE search_history
    /\ Len(search_history') <= MaxHistory
    /\ last' = Op("search", session[s].user.id,
                  search_view(search_params, disk, conferences, response).msg)
    /\ UNCHANGED <<users, password_reset_requests, session, call>>

train_button(s) ==
    /\ Seeded
    /\ session[s].page \in {"search", "train"}
    /\ session[s].user # NoUser
    /\ session[s].user.is_admin
    /\ SetPage(s, "train")
    /\ last' = Op("nav", 0, MsgNone)
    /\ UNCHANGED <<users, search_history, password_reset_requests, call>>

\* page routing of main(): the view one execution renders for a session
main_view(sess) ==
    IF sess.page = "auth"
    THEN "user_authentication"
    ELSE IF sess.page = "manage_users"
    THEN IF sess.user = NoUser \/ ~sess.user.is_admin
         THEN "error" ELSE "admin_manage_users"
    ELSE IF sess.page = "manage_resets"
    THEN IF sess.user = NoUser \/ ~sess.user.is_admin
         THEN "error" ELSE "admin_manage_password_resets"
    ELSE IF sess.page = "history"
    THEN IF sess.user = NoUser THEN "error" ELSE "view_search_history"
    ELSE "search"

\* the last statement of main(): the training panel below the search page
train_panel(sess) == main_view(sess) = "search" /\ sess.page = "train"

Next ==
    \E s \in Sessions :
        \/ init_db(s)
        \/ go_to_auth(s)
        \/ \E mode \in AuthModes, u \in TypedUsernames, p \in TypedPasswords :
               auth_submit_handler(s, mode, u, p)
        \/ logout(s)
        \/ \E p \in Pages : go_to_page(s, p)
        \/ back_to_search(s)
        \/ \E u \in ResetUsernames : reset_req_main(s, u)
        \/ \E i \in 1..MaxUsers, u \in NewUsernames, p \in TypedPasswords,
              a \in BOOLEAN : admin_manage_users(s, i, u, p, a)
        \/ \E r \in 1..MaxResets, p \in TypedPasswords :
               admin_manage_password_resets(s, r, p)
        \/ \E params \in SearchParams, disk \in Disks :
               search(s, params, disk, <<>>, Transport)
        \/ train_button(s)

Spec == Init /\ [][Next]_vars

\* ------------------------------------------ the search of main() alone
\* what the sidebar can hold when the search button is pressed
TypedKeywords == {EmptyText, <<"Retrieval", ",", " ", "agent">>}

FieldChoices == {<<>>, <<"title">>}

SidebarParams ==
    [keyword : TypedKeywords,
     search_mode : {SEARCH_MODE_OR},
     fields_to_search : FieldChoices,
     data_search_mode : {DATA_SEARCH_MODES[1], DATA_SEARCH_MODES[2], NoMode},
     include_rejected : {FALSE},
     use_nl : BOOLEAN]

\* the values of the conference multiselect of load_data_source
ConferenceChoices == {<<>>, <<"ICLR">>, <<"ICLR", "NeurIPS">>}

\* answers of the text-generation endpoint to the search of main()
SearchResponses ==
    {Transport, Http(200, TRUE, <<JStr("result", <<"agent", ",", " ", "planning">>)>>)}

\* log in, search, log out
NextSearch ==
    \E s \in Sessions :
        \/ init_db(s)
        \/ go_to_auth(s)
        \/ \E u \in TypedUsernames, p \in TypedPasswords :
               auth_submit_handler(s, "login", u, p)
        \/ logout(s)
        \/ \E params \in SidebarParams, disk \in Disks,
              conferences \in ConferenceChoices, response \in SearchResponses :
               search(s, params, disk, conferences, response)

SpecSearch == Init /\ [][NextSearch]_vars

\* ------------------------------ the functions of the pipeline on their own
\* arguments of display_search_results
DisplayKeywords == {EmptyText, <<"agent">>, <<"Retrieval", ",", " ", "agent">>}

AllowList(field, conf, values) ==
    [field |-> field, conf |-> conf, values |-> values]

KeyFieldsFilters ==
    {<<>>,
     <<AllowList("award", "ICLR", <<PyStr("true")>>)>>,
     <<AllowList("award", "ICLR", <<PyStr("True")>>),
       AllowList("status", "ICLR", <<>>)>>,
     <<AllowList("award", "NeurIPS", <<PyStr("True")>>),
       AllowList("status", "ICLR", <<PyStr("Accept"), PyStr("Reject")>>)>>}

Category(name, ids) == [name |-> name, ids |-> ids]

CategorySelections ==
    {NoSelection,
     [c \in {"ICLR", "NeurIPS"} |->
         IF c = "ICLR" THEN <<"agents">> ELSE <<>>],
     [c \in {"ICLR", "NeurIPS"} |->
         IF c = "ICLR" THEN <<"agents", "unknown">> ELSE <<"unknown">>]}

Catalogs ==
    {NoCatalog,
     [c \in {"ICLR", "NeurIPS"} |->
         IF c = "ICLR"
         THEN <<Category("agents", {"i1"}), Category("theory", {"i2"})>>
         ELSE <<Category("theory", {"n1"})>>]}

DisplayParams ==
    [keyword : DisplayKeywords,
     search_mode : {SEARCH_MODE_OR, SEARCH_MODE_AND},
     fields_to_search : FieldChoices,
     data_search_mode : {DATA_SEARCH_MODES[1], DATA_SEARCH_MODES[2]},
     include_rejected : BOOLEAN,
     use_nl : {FALSE},
     key_fields_filters : KeyFieldsFilters]

DisplayCalls ==
    [fn : {"display_search_results"}, pc : {"called"},
     data : {<<tag_source(PaperICLR1, "ICLR")>>},
     source : {<<"ICLR", "+", "NeurIPS">>},
     search_params : DisplayParams,
     session_data : Collections,
     selection : CategorySelections,
     catalog : Catalogs,
     view : {NoResults(MsgNone)}]

\* arguments of generate_keywords_via_model and answers of the endpoint
NaturalQueries ==
    {EmptyText, <<" ">>, <<"Retrieval", ",", "agent">>,
     <<" ", "agent", " ", "Agent">>}

KeywordText == <<" ", "agent", ",", " ", "planning", " ">>

Responses ==
    {Transport,
     Http(500, TRUE, <<JStr("result", KeywordText)>>),
     Http(200, FALSE, <<>>),
     Http(200, TRUE, <<JStr("result", KeywordText)>>),
     Http(200, TRUE, <<JStr("result", <<" ">>)>>),
     Http(200, TRUE, <<JStr("result", EmptyText)>>),
     Http(200, TRUE, <<JList("choices", JFirstDict(<<JSub("text", "str", KeywordText)>>))>>),
     Http(200, TRUE, <<JList("choices", JFirstDict(<<JSub("text", "other", EmptyText)>>))>>),
     Http(200, TRUE, <<JList("data", JFirstStr(KeywordText))>>),
     Http(200, TRUE, <<JList("result", JNoFirst), JStr("text", KeywordText)>>),
     Http(200, TRUE, <<JList("choices", JFirstDict(<<JSub("index", "other", EmptyText)>>))>>),
     Http(200, TRUE, <<JOther("error_code"), JStr("error_msg", <<"invalid", " ", "token">>)>>),
     Http(200, TRUE, <<JOther("result")>>),
     Http(200, TRUE, <<>>)}

KeywordCalls ==
    [fn : {"generate_keywords_via_model"}, pc : {"called"},
     natural_query : NaturalQueries,
     baidu_key : {"", BAIDU_QF_KEY},
     response : Responses,
     result : {ReturnedNone}]

\* the search of main() as a function of the sidebar, the data directory,
\* the conference multiselect and the endpoint's answer
SearchCalls ==
    [fn : {"search_view"}, pc : {"called"},
     search_params : SidebarParams,
     disk : Disks,
     conferences : ConferenceChoices,
     response : SearchResponses,
     loaded : {load_data_source(NoCatalog, NoMode, <<>>)},
     view : {NoResults(MsgNone)}]

InitCalls ==
    /\ users = seed_admin(<<>>)
    /\ search_history = <<>>
    /\ password_reset_requests = <<>>
    /\ session = [s \in Sessions |-> [user |-> NoUser, page |-> "search"]]
    /\ last = Op("init_db", 0, MsgNone)
    /\ \/ call \in DisplayCalls
       \/ call \in KeywordCalls
       \/ call \in SearchCalls

run_display_search_results ==
    /\ call.fn = "display_search_results"
    /\ call.pc = "called"
    /\ call' = [call EXCEPT
                   !.pc = "returned",
                   !.view = display_search_results(call.data, call.source,
                                call.search_params, call.session_data,
                                call.selection, call.catalog)]
    /\ UNCHANGED <<users, search_history, password_reset_requests, session, last>>

run_generate_keywords_via_model ==
    /\ call.fn = "generate_keywords_via_model"
    /\ call.pc = "called"
    /\ call' = [call EXCEPT
                   !.pc = "returned",
                   !.result = generate_keywords_via_model(call.natural_query,
                                  call.baidu_key, call.response)]
    /\ UNCHANGED <<users, search_history, password_reset_requests, session, last>>

run_search_view ==
    /\ call.fn = "search_view"
    /\ call.pc = "called"
    /\ call' = [call EXCEPT
                   !.pc = "returned",
                   !.loaded = load_data_source(call.disk,
                                  expand_query(call.search_params,
                                               call.response).data_search_mode,
                                  call.conferences),
                   !.view = search_view(call.search_params, call.disk,
                                        call.conferences, call.response)]
    /\ UNCHANGED <<users, search_history, password_reset_requests, session, last>>

NextCalls ==
    \/ run_display_search_results
    \/ run_generate_keywords_via_model
    \/ run_search_view

SpecCalls == InitCalls /\ [][NextCalls]_vars

\* --------------------------- the admin password reset when a statement fails
\* the statement of the try block of admin_manage_password_resets that raises
ResetFaults == {"update_users_failed", "update_request_failed"}

\* bug variant: the except branch rolls the transaction back
admin_reset_password_failing_rollback(tbl, reqs, req_id, new_password, failed, committed) ==
    IF ~TruthyStr(new_password)
    THEN [users |-> tbl, requests |-> reqs, msg |-> MsgEmptyNewPassword]
    ELSE [users |-> tbl, requests |-> reqs,
          msg |-> IF committed THEN MsgResetError ELSE MsgUncaught]

\* the "reset password" button when the statement `failed` raises: the except
\* branch reports the error and undoes nothing; what was executed before is
\* written by the commit that ends the with block (`committed`), or lost with
\* the connection when that commit raises too
admin_reset_password_failing(tbl, reqs, req_id, new_password, failed, committed) ==
    IF ~TruthyStr(new_password)
    THEN [users |-> tbl, requests |-> reqs, msg |-> MsgEmptyNewPassword]
    ELSE IF ~committed
    THEN [users |-> tbl, requests |-> reqs, msg |-> MsgUncaught]
    ELSE IF failed = "update_users_failed"
    THEN [users |-> tbl, requests |-> reqs, msg |-> MsgResetError]
    ELSE [users |-> admin_reset_password(tbl, reqs, req_id, new_password).users,
          requests |-> reqs,
          msg |-> MsgResetError]

admin_manage_password_resets_failing(s, req_id, new_password, failed, committed) ==
    /\ Seeded
    /\ session[s].page = "manage_resets"
    /\ session[s].user # NoUser
    /\ session[s].user.is_admin
    /\ req_id \in PendingIds(password_reset_requests)
    /\ LET r == admin_reset_password_failing(users, password_reset_requests,
                    req_id, new_password, failed, committed) IN
       /\ users' = r.users
       /\ password_reset_requests' = r.requests
       /\ last' = OpWith(failed, req_id, new_password, r.msg)
    /\ UNCHANGED <<search_history, session, call>>

\* accounts, reset requests and resets that succeed or fail
NextFaults ==
    \E s \in Sessions :
        \/ init_db(s)
        \/ go_to_auth(s)
        \/ \E mode \in AuthModes, u \in TypedUsernames, p \in TypedPasswords :
               auth_submit_handler(s, mode, u, p)
        \/ logout(s)
        \/ \E p \in Pages : go_to_page(s, p)
        \/ back_to_search(s)
        \/ \E u \in ResetUsernames : reset_req_main(s, u)
        \/ \E r \in 1..MaxResets, p \in TypedPasswords :
               admin_manage_password_resets(s, r, p)
        \/ \E r \in 1..MaxResets, p \in TypedPasswords, failed \in ResetFaults,
              committed \in BOOLEAN :
               admin_manage_password_resets_failing(s, r, p, failed, committed)

SpecFaults == Init /\ [][NextFaults]_vars

\* ----------------------- the connections of the account-store operations
\* the operations that open a connection with `with sqlite3.connect(DB_PATH)`
AccountOperations ==
    {"init_db", "authenticate_user", "register_user", "save_search_history",
     "request_reset"}

\* the calls of these operations: init_db takes no argument,
\* save_search_history the id of the session user, a reset request a username
OperationCalls ==
    {c \in [fn : AccountOperations,
            username : NewUsernames \cup {EmptyText},
            password : TypedPasswords] :
        /\ c.fn \in {"authenticate_user", "register_user"}
           <=> TruthyStr(c.password)
        /\ c.fn \in {"init_db", "save_search_history"}
           <=> ~TruthyText(c.username)}

\* what the body of the with block writes when it runs to its end
operation_effect(c) ==
    [users |-> IF c.fn = "init_db" THEN seed_admin(users)
               ELSE IF c.fn = "register_user"
               THEN register_user(users, c.username, c.password).users
               ELSE users,
     requests |-> IF c.fn = "request_reset"
                  THEN request_reset(users, password_reset_requests,
                                     c.username).requests
                  ELSE password_reset_requests,
     history |-> IF c.fn = "save_search_history"
                 THEN save_search_history(search_history, 1,
                          CHOOSE params \in SearchParams : TRUE)
                 ELSE search_history]

\* sqlite3.connect(DB_PATH): the operation holds an open connection
connect(c) ==
    /\ call.pc \in {"none", "returned"}
    /\ call' = [fn |-> c.fn, pc |-> "connected", username |-> c.username,
                password |-> c.password, open |-> TRUE, raised |-> FALSE]
    /\ UNCHANGED <<users, search_history, password_reset_requests, session, last>>

\* the end of the with block and of the operation: the connection's __exit__
\* commits, or rolls back when the body raised (an error other than the
\* IntegrityError the operations catch); it does not close the connection,
\* and no operation calls close(). The connection object is closed when the
\* interpreter discards it: at the return (`released`), or later, when the
\* traceback of the exception or the collector lets go of it
with_exit(raised, released) ==
    /\ call.pc = "connected"
    /\ LET r == operation_effect(call) IN
       /\ users' = IF raised THEN users ELSE r.users
       /\ password_reset_requests' = IF raised THEN password_reset_requests
                                     ELSE r.requests
       /\ search_history' = IF raised THEN search_history ELSE r.history
    /\ Len(users') <= MaxUsers
    /\ Len(password_reset_requests') <= MaxResets
    /\ Len(search_history') <= MaxHistory
    /\ call' = [call EXCEPT !.pc = "returned", !.raised = raised,
                            !.open = ~released]
    /\ UNCHANGED <<session, last>>

\* the interpreter discards the connection object of an operation that ended
finalize ==
    /\ call.pc = "returned"
    /\ call.open
    /\ call' = [call EXCEPT !.open = FALSE]
    /\ UNCHANGED <<users, search_history, password_reset_requests, session, last>>

NextConnections ==
    \/ \E c \in OperationCalls : connect(c)
    \/ \E raised \in BOOLEAN, released \in BOOLEAN : with_exit(raised, released)
    \/ finalize

SpecConnections == Init /\ [][NextConnections]_vars

\* ------------------------------ register_user called by two sessions at once
\* the sessions whose script threads run register_user concurrently
RegisteringSessions == {"s1", "s2"}

\* what the two registration forms submit (stripped, non-empty)
RegisteredUsernames == {AdminName, <<"alice">>, <<"bob">>}

RegisteredPasswords == {"admin123", "pw1"}

Idle == [at |-> "idle", username |-> EmptyText, password |-> "", result |-> "none"]

\* bug variant: writers are not serialised by the database lock
write_lock_ignored(c, p) == TRUE

\* the database grants the write lock an INSERT needs: no other connection
\* holds an INSERT that is not yet committed (the statement waits otherwise)
write_lock_free(c, p) ==
    \A q \in RegisteringSessions \ {p} : c.reg[q].at # "inserted"

\* sqlite3.connect(DB_PATH) of register_user(username, password)
register_connect(p, username, password) ==
    /\ call.fn = "register_user"
    /\ call.reg[p].at = "idle"
    /\ call' = [call EXCEPT !.reg[p] = [at |-> "connected", username |-> username,
                                        password |-> password, result |-> "none"]]
    /\ UNCHANGED <<users, search_history, password_reset_requests, session, last>>

\* cursor.execute("INSERT INTO users ..."): under the write lock the UNIQUE
\* constraint is checked against the committed table; IntegrityError makes
\* register_user return False
register_insert(p) ==
    /\ call.fn = "register_user"
    /\ call.reg[p].at = "connected"
    /\ write_lock_free(call, p)
    /\ call' = IF register_user(users, call.reg[p].username,
                                call.reg[p].password).ok
               THEN [call EXCEPT !.reg[p].at = "inserted"]
               ELSE [call EXCEPT !.reg[p].at = "returned",
                                 !.reg[p].result = "False"]
    /\ UNCHANGED <<users, search_history, password_reset_requests, session, last>>

\* conn.commit(); return True: the inserted row joins the table and the
\* write lock is given up
register_commit(p) ==
    /\ call.fn = "register_user"
    /\ call.reg[p].at = "inserted"
    /\ users' = register_user(users, call.reg[p].username,
                              call.reg[p].password).users
    /\ Len(users') <= MaxUsers
    /\ call' = [call EXCEPT !.reg[p].at = "returned", !.reg[p].result = "True"]
    /\ UNCHANGED <<search_history, password_reset_requests, session, last>>

InitRegister ==
    /\ users = seed_admin(<<>>)
    /\ search_history = <<>>
    /\ password_reset_requests = <<>>
    /\ session = [s \in Sessions |-> [user |-> NoUser, page |-> "auth"]]
    /\ last = Op("init_db", 0, MsgNone)
    /\ call = [fn |-> "register_user", pc |-> "concurrent",
               reg |-> [p \in RegisteringSessions |-> Idle]]

NextRegister ==
    \E p \in RegisteringSessions :
        \/ \E u \in RegisteredUsernames, pw \in RegisteredPasswords :
               register_connect(p, u, pw)
        \/ register_insert(p)
        \/ register_commit(p)

SpecRegister == InitRegister /\ [][NextRegister]_vars

TypeOK ==
    /\ Len(users) \in 1..MaxUsers
    /\ Len(password_reset_requests) <= MaxResets
    /\ Len(search_history) <= MaxHistory

\* ------------------------------------------------------------ properties
\* the row of `tbl` with this username and the digest of this password
RowMatches(tbl, username, password) ==
    \E i \in 1..Len(tbl) :
        tbl[i].username = username /\ tbl[i].password = hash_password(password)

\* register_user / authenticate_user are invoked only with non-blank fields
Submitted(u, p) == TruthyText(strip(u)) /\ TruthyStr(p)

\* C1: registering a username that already exists fails with the
\* duplicate-username error, leaves the users table (and the session) as it
\* was, the password the account had still authenticates and the password of
\* the rejected registration, when different, does not.
C1_DuplicateRegisterRejected ==
    [][\A s \in Sessions, u \in TypedUsernames, p \in TypedPasswords :
          (/\ auth_submit_handler(s, "register", u, p)
           /\ Submitted(u, p)
           /\ UsernameTaken(users, strip(u), 0))
          => /\ users' = users
             /\ session' = session
             /\ last'.msg = MsgDuplicateUsername
             /\ \A p1 \in TypedPasswords :
                   RowMatches(users, strip(u), p1)
                   => /\ authenticate_user(users', strip(u), p1).id
                            = UserIdByName(users, strip(u))
                      /\ p # p1 => authenticate_user(users', strip(u), p) = NoUser
      ]_vars

\* C1 witness: a registration was rejected as a duplicate while the account
\* of that name is still in the table
C1_Witness ==
    /\ last.op = "register"
    /\ last.msg = MsgDuplicateUsername
    /\ Len(users) = 2

\* C2: a session becomes Authenticated only in a submit step after which the
\* users table holds a row with the submitted username and the digest of the
\* submitted password (for a login, the table of before the step), and the
\* session user is that row; a login whose credentials match no row leaves the
\* session Anonymous and reports the invalid-credentials error (a blank field
\* is rejected by the form, session Anonymous, before authenticate_user runs).
C2_AuthenticateOnlyOnExactMatch ==
    [][\A s \in Sessions :
          /\ (session[s].user = NoUser /\ session'[s].user # NoUser)
             => \E mode \in AuthModes, u \in TypedUsernames, p \in TypedPasswords :
                   /\ auth_submit_handler(s, mode, u, p)
                   /\ RowMatches(users', strip(u), p)
                   /\ mode = "login" => RowMatches(users, strip(u), p)
                   /\ session'[s].user.id \in 1..Len(users')
                   /\ users'[session'[s].user.id].username = strip(u)
                   /\ users'[session'[s].user.id].password = hash_password(p)
          /\ \A u \in TypedUsernames, p \in TypedPasswords :
                (/\ auth_submit_handler(s, "login", u, p)
                 /\ ~RowMatches(users, strip(u), p))
                => /\ session'[s].user = NoUser
                   /\ session' = session
                   /\ users' = users
                   /\ last'.msg = IF Submitted(u, p)
                                  THEN MsgInvalidCredentials ELSE MsgEmptyFields
      ]_vars

\* C2 witness: a login succeeded
C2_Witness ==
    /\ last.op = "login"
    /\ last.msg = MsgWelcome
    /\ \E s \in Sessions : session[s].user.id = last.id /\ last.id # 0

\* C3: registering a username that does not exist appends exactly one row
\* holding that username, the digest of the password and admin flag 0, leaves
\* every other row as it was, and authenticating with the same credentials
\* then yields that row as a non-admin user.
C3_RegisterAddsOneRow ==
    [][\A s \in Sessions, u \in TypedUsernames, p \in TypedPasswords :
          (/\ auth_submit_handler(s, "register", u, p)
           /\ Submitted(u, p)
           /\ ~UsernameTaken(users, strip(u), 0))
          => /\ Len(users') = Len(users) + 1
             /\ \A i \in 1..Len(users) : users'[i] = users[i]
             /\ users'[Len(users')] = [username |-> strip(u),
                                       password |-> <<"sha256", p>>,
                                       is_admin |-> 0]
             /\ authenticate_user(users', strip(u), p)
                   = [id |-> Len(users'), username |-> strip(u), is_admin |-> FALSE]
             /\ session'[s].user = authenticate_user(users', strip(u), p)
      ]_vars

\* C3 witness: a registration created an account and logged it in
C3_Witness ==
    /\ last.op = "register"
    /\ last.msg = MsgRegistered
    /\ last.id = Len(users)
    /\ users[last.id].is_admin = 0

\* C4: an admin reset with a non-empty new password turns exactly the selected
\* Pending request into Completed and stores the digest of the new password in
\* the row of that request's user id; every other request, every other field
\* and every other user row stay as they were, and the target user then
\* authenticates with the new password.
C4_AdminResetExactlyOne ==
    [][\A s \in Sessions, r \in 1..Len(password_reset_requests),
          p \in TypedPasswords :
          (admin_manage_password_resets(s, r, p) /\ TruthyStr(p))
          => LET uid == password_reset_requests[r].user_id IN
             /\ password_reset_requests[r].status = "Pending"
             /\ Len(password_reset_requests') = Len(password_reset_requests)
             /\ password_reset_requests'[r] =
                   [user_id |-> uid,
                    username |-> password_reset_requests[r].username,
                    status |-> "Completed"]
             /\ \A j \in 1..Len(password_reset_requests) :
                   j # r => password_reset_requests'[j] = password_reset_requests[j]
             /\ uid \in 1..Len(users)
             /\ Len(users') = Len(users)
             /\ users'[uid] = [username |-> users[uid].username,
                               password |-> <<"sha256", p>>,
                               is_admin |-> users[uid].is_admin]
             /\ \A i \in 1..Len(users) : i # uid => users'[i] = users[i]
             /\ authenticate_user(users', users'[uid].username, p).id = uid
             /\ last'.msg = MsgResetDone
      ]_vars

\* C4 witness: a reset was carried out while another request of the same user
\* is still Pending
C4_Witness ==
    /\ last.op = "admin_reset"
    /\ last.msg = MsgResetDone
    /\ password_reset_requests[last.id].status = "Completed"
    /\ \E j \in 1..Len(password_reset_requests) :
          /\ j # last.id
          /\ password_reset_requests[j].user_id
                = password_reset_requests[last.id].user_id
          /\ password_reset_requests[j].status = "Pending"

\* C5: a request row is created Pending; its status changes only from Pending
\* to Completed and only in an admin reset step for that request which also
\* stores the digest of the new password in the target user's row; no other
\* step changes a status, so Completed never returns to Pending.
C5_CompletedOnlyByAdminReset ==
    [][/\ \A r \in 1..Len(password_reset_requests') :
             r > Len(password_reset_requests)
             => password_reset_requests'[r].status = "Pending"
       /\ \A r \in 1..Len(password_reset_requests) :
             /\ r \in 1..Len(password_reset_requests')
             /\ password_reset_requests[r].status = "Completed"
                => password_reset_requests'[r].status = "Completed"
             /\ password_reset_requests'[r].status # password_reset_requests[r].status
                => \E s \in Sessions, p \in TypedPasswords :
                      /\ admin_manage_password_resets(s, r, p)
                      /\ p = last'.password
                      /\ TruthyStr(p)
                      /\ session[s].user.is_admin
                      /\ password_reset_requests'[r].status = "Completed"
                      /\ users'[password_reset_requests[r].user_id].password
                            = <<"sha256", p>>
      ]_vars

\* C5 witness: a Completed request exists next to a Pending one
C5_Witness ==
    /\ \E r \in 1..Len(password_reset_requests) :
          password_reset_requests[r].status = "Completed"
    /\ \E r \in 1..Len(password_reset_requests) :
          password_reset_requests[r].status = "Pending"

\* C6: a reset request for a username that is absent from users changes no
\* table and appends no request row; the unknown-user error is reported (for a
\* blank field the form reports the missing username instead).
C6_ResetRequestUnknownUser ==
    [][\A s \in Sessions, u \in ResetUsernames :
          (/\ reset_req_main(s, u)
           /\ ~UsernameTaken(users, u, 0))
          => /\ password_reset_requests' = password_reset_requests
             /\ users' = users
             /\ search_history' = search_history
             /\ last'.msg = IF TruthyText(u) THEN MsgUnknownUser ELSE MsgEnterUsername
      ]_vars

\* C6 witness: a reset request was refused for an unknown username
C6_Witness ==
    /\ last.op = "request_reset"
    /\ last.msg = MsgUnknownUser

\* C7: a reset request for an existing username appends exactly one Pending
\* row with that user's id and the username as typed, whatever requests the
\* user already has.
C7_ResetRequestAppendsOneRow ==
    [][\A s \in Sessions, u \in ResetUsernames :
          (/\ reset_req_main(s, u)
           /\ TruthyText(u)
           /\ UsernameTaken(users, u, 0))
          => /\ Len(password_reset_requests') = Len(password_reset_requests) + 1
             /\ \A j \in 1..Len(password_reset_requests) :
                   password_reset_requests'[j] = password_reset_requests[j]
             /\ \E i \in 1..Len(users) :
                   /\ users[i].username = u
                   /\ password_reset_requests'[Len(password_reset_requests')]
                         = [user_id |-> i, username |-> u, status |-> "Pending"]
             /\ users' = users
             /\ last'.msg = MsgResetSubmitted
      ]_vars

\* C7 witness: a second request of a user was appended next to an earlier one
C7_Witness ==
    /\ last.op = "request_reset"
    /\ last.msg = MsgResetSubmitted
    /\ Len(password_reset_requests) = 2
    /\ password_reset_requests[1].user_id = password_reset_requests[2].user_id
    /\ password_reset_requests[2].status = "Pending"

\* C8: an admin reset with an empty new password reports an error and changes
\* nothing: the request stays Pending and no user row changes.
C8_AdminResetEmptyPassword ==
    [][\A s \in Sessions, r \in 1..Len(password_reset_requests) :
          admin_manage_password_resets(s, r, "")
          => /\ last'.msg = MsgEmptyNewPassword
             /\ users' = users
             /\ password_reset_requests' = password_reset_requests
             /\ password_reset_requests'[r].status = "Pending"
             /\ search_history' = search_history
             /\ session' = session
      ]_vars

\* C8 witness: a reset with an empty password was refused
C8_Witness ==
    /\ last.op = "admin_reset"
    /\ last.msg = MsgEmptyNewPassword
    /\ password_reset_requests[last.id].status = "Pending"

\* the store without the account of this username
WithoutUser(tbl, username) ==
    SelectSeq(tbl, LAMBDA row : row.username # username)

\* C9: for every store the program reaches and the store that differs from it
\* only in that the submitted username does not exist, a login that fails in
\* both reports the same message and leaves the same (Anonymous) session user.
C9_FailedLoginIndistinguishable ==
    \A u \in TypedUsernames, p \in TypedPasswords :
        LET present == auth_submit(users, "login", u, p)
            absent == auth_submit(WithoutUser(users, strip(u)), "login", u, p)
        IN (present.user = NoUser /\ absent.user = NoUser)
           => /\ present.msg = absent.msg
              /\ present.user = absent.user
              /\ present.users = users

\* C9 witness: a login failed on a wrong password (every submitted username
\* has an account)
C9_Witness ==
    /\ last.op = "login"
    /\ last.msg = MsgInvalidCredentials
    /\ \A u \in TypedUsernames :
          TruthyText(strip(u)) => UsernameTaken(users, strip(u), 0)

Contradictory(search_params) ==
    LET tokens == keywords_list(search_params.keyword) IN
    \/ search_params.fields_to_search = <<>> /\ tokens # <<>>
    \/ search_params.fields_to_search # <<>> /\ tokens = <<>>

\* C11: a search with contradictory parameters (keyword tokens but no field
\* selected, or fields selected but no token) ends with a validation
\* message, returns no results and mutates no state: the session and the
\* three tables, search_history included, are the same after the search.
C11_ContradictoryParamsMutateNothing ==
    [][\A s \in Sessions, params \in SidebarParams, disk \in Disks,
          conferences \in ConferenceChoices, response \in SearchResponses :
          search(s, params, disk, conferences, response)
          /\ Contradictory(expand_query(params, response))
          => /\ last'.msg \in {MsgChooseFields, MsgEnterKeywords}
             /\ UNCHANGED <<users, search_history, password_reset_requests,
                            session>>]_vars

\* C12: every search filters the record collection read from disk in that
\* same invocation: a search over a source that yields at least one record
\* proceeds to filtering the records load_data_source returned, instead of
\* reporting that no data could be loaded.
C12_SearchFiltersLoadedData ==
    call.fn = "search_view" /\ call.pc = "returned" /\ call.loaded.data # <<>>
    => /\ call.view.msg # MsgCannotLoad
       /\ call.view.msg = MsgStatistics => call.view.data = call.loaded.data

\* a call of display_search_results that reached the statistics
Displayed ==
    /\ call.fn = "display_search_results"
    /\ call.pc = "returned"
    /\ call.view.msg = MsgStatistics

\* the elements of a sequence
Range(seq) == {seq[i] : i \in 1..Len(seq)}

\* C13: status filtering: with the include-rejected flag false the
\* status-filtered collection is exactly the records whose status is not
\* Withdraw, Reject or Desk Reject (records without a status are kept), in
\* their original order; with the flag true it is the whole collection.
C13_StatusFiltering ==
    Displayed
    => IF call.search_params.include_rejected
       THEN call.view.status_filtered = call.view.data
       ELSE call.view.status_filtered =
                SelectSeq(call.view.data,
                          LAMBDA r : r.status \notin {PyStr("Withdraw"),
                                                     PyStr("Reject"),
                                                     PyStr("Desk Reject")})

C13_Witness ==
    /\ Displayed
    /\ ~call.search_params.include_rejected
    /\ keywords_list(call.search_params.keyword) = <<>>
    /\ call.view.data = <<tag_source(PaperICLR2, "ICLR"),
                          tag_source(PaperNeurIPS1, "NeurIPS")>>
    /\ call.view.status_filtered = <<tag_source(PaperNeurIPS1, "NeurIPS")>>

\* C14: count invariant: in every search that reaches the statistics,
\* matched count <= status-filtered count <= total count, the matched count
\* being taken after keyword matching, key-field and category faceting.
C14_CountInvariant ==
    Displayed
    => /\ call.view.counts.matched_count <= call.view.counts.status_filtered_count
       /\ call.view.counts.status_filtered_count <= call.view.counts.total_count
       /\ call.view.counts.matched_count = Len(call.view.filtered)
       /\ call.view.counts.total_count = Len(call.session_data)

C14_Witness ==
    /\ Displayed
    /\ call.view.counts.total_count = 2
    /\ call.view.counts.status_filtered_count = 1
    /\ call.view.counts.matched_count = 0
    /\ keywords_list(call.search_params.keyword) = <<>>

\* the allow-lists of key_fields_filters that are active for a record, and
\* whether the record's value is in such a list
ActiveFor(r, filters) ==
    {e \in 1..Len(filters) : filters[e].conf = r.source /\ filters[e].values # <<>>}

InAllowList(r, entry) ==
    LET value == IF entry.field = "award" THEN r.award ELSE r.status IN
    IF entry.field = "award" /\ value.t = "bool"
    THEN lower(value.s) \in {lower(v.s) : v \in Range(entry.values)}
    ELSE value \in Range(entry.values)

SelectedIds(selected, categories_data) ==
    UNION {c.ids : c \in {c \in Range(categories_data) : c.name \in Range(selected)}}

RetainedByCategory(r) ==
    IF call.selection[r.source] # <<>> /\ call.catalog[r.source] # <<>>
    THEN r.id \in SelectedIds(call.selection[r.source], call.catalog[r.source])
    ELSE TRUE

C17_AndWithinOr ==
    Displayed /\ call.search_params.search_mode = SEARCH_MODE_AND
    /\ keywords_list(call.search_params.keyword) # <<>>
    => Range(call.view.matched) \subseteq
           Range(filter_data(call.session_data, call.search_params.keyword,
                             call.search_params.fields_to_search, SEARCH_MODE_OR,
                             call.search_params.include_rejected).filtered)

C17_Witness ==
    /\ Displayed
    /\ call.search_params.search_mode = SEARCH_MODE_AND
    /\ Len(keywords_list(call.search_params.keyword)) = 2
    /\ call.session_data = <<tag_source(PaperICLR1, "ICLR"),
                             tag_source(PaperNeurIPS1, "NeurIPS")>>
    /\ call.view.matched = <<tag_source(PaperICLR1, "ICLR")>>

\* the one active allow-list of a conference is an award list ["true"] or
\* ["True"]
AwardTrueOnly(conf, filters) ==
    /\ \E e \in 1..Len(filters) :
           /\ filters[e].field = "award" /\ filters[e].conf = conf
           /\ filters[e].values \in {<<PyStr("true")>>, <<PyStr("True")>>}
    /\ \A e \in 1..Len(filters) :
           filters[e].conf = conf /\ filters[e].values # <<>>
           => filters[e].field = "award"

\* C18: award normalization in key-field faceting: a boolean award is
\* compared case-insensitively as a string against the allow-list, so that
\* an allow-list ["true"] or ["True"] retains the records whose award is
\* True and drops those whose award is False.
C18_AwardNormalization ==
    Displayed /\ call.search_params.data_search_mode = DATA_SEARCH_MODES[2]
    => \A r \in Range(call.view.matched) :
           r.award.t = "bool"
           /\ AwardTrueOnly(r.source, call.search_params.key_fields_filters)
           => (r \in Range(call.view.after_key_fields) <=> r.award = PyBool("True"))

C18_Witness ==
    /\ Displayed
    /\ call.search_params.data_search_mode = DATA_SEARCH_MODES[2]
    /\ AwardTrueOnly("ICLR", call.search_params.key_fields_filters)
    /\ call.view.matched = <<tag_source(PaperICLR1, "ICLR"),
                             tag_source(PaperICLR2, "ICLR")>>
    /\ call.view.after_key_fields = <<tag_source(PaperICLR1, "ICLR")>>

\* the call ended in a transport failure, a status other than 200, a body
\* that is not JSON, or a JSON object without any of the keyword fields
NoKeywordText(response) ==
    \/ response.kind = "exception"
    \/ response.status_code # 200
    \/ ~response.json_ok
    \/ \A i \in 1..Len(response.jr) :
           response.jr[i].k \notin {"result", "output", "text", "choices", "data"}

\* C19: for a non-empty query, whenever the outbound call ends in a
\* transport failure, a non-200 response or a payload from which no keyword
\* text can be extracted, generate_keywords_via_model returns the result of
\* the local tokenizer and never raises.
C19_FallbackToLocalTokenizer ==
    /\ call.fn = "generate_keywords_via_model"
    /\ call.pc = "returned"
    /\ strip(call.natural_query) # EmptyText
    /\ NoKeywordText(call.response)
    => call.result = Returned(local_tokens(call.natural_query))

\* the conferences a search reads
SelectedConferences(search_params, conferences) ==
    IF search_params.data_search_mode = DATA_SEARCH_MODES[1]
    THEN Range(CONFERENCES)
    ELSE IF search_params.data_search_mode = DATA_SEARCH_MODES[2]
    THEN Range(conferences)
    ELSE {}

C21_UsernamesUnique ==
    \A i, j \in 1..Len(users) :
        i # j => users[i].username # users[j].username

\* C21 witness: an admin save that would have given a second row the name of
\* another one was turned down, and the table holds two rows
C21_Witness ==
    /\ last.op = "admin_save"
    /\ last.msg = MsgDuplicateUsername
    /\ Len(users) = 2
    /\ users[1].username # users[2].username

\* C22: the store is seeded with one default admin account: after any
\* sequence of account operations a further init_db run inserts no users row
\* and modifies no existing row.
C22_SeedOnce ==
    [][\A s \in Sessions : init_db(s) => users' = users]_vars

\* C26: an admin save that changes a username to one already used by another
\* account reports the duplicate-username error and changes none of the
\* edited user's username, password hash or admin flag, whatever new password
\* or admin flag was submitted in the same save.
C26_DuplicateRenameChangesNothing ==
    [][last'.op = "admin_save"
       => \A s \in Sessions, i \in 1..Len(users), u \in NewUsernames,
             p \in TypedPasswords, a \in BOOLEAN :
             (/\ i = last'.id
              /\ u # users[i].username
              /\ UsernameTaken(users, u, i)
              /\ admin_manage_users(s, i, u, p, a))
             => /\ last'.msg = MsgDuplicateUsername
                /\ users'[i] = users[i]
                /\ users' = users
      ]_vars

\* C26 witness: the save of the second row asked for the name of the first;
\* it was turned down and the two rows still have different names, the
\* second without the admin flag
C26_Witness ==
    /\ last.op = "admin_save"
    /\ last.msg = MsgDuplicateUsername
    /\ last.id = 2
    /\ Len(users) = 2
    /\ users[1].username = AdminName
    /\ users[2].username = <<"alice">>
    /\ users[2].is_admin = 0

\* the views rendered for a session are those its user may see
Routed(sess) ==
    /\ main_view(sess) \in {"admin_manage_users", "admin_manage_password_resets"}
       => sess.user # NoUser /\ sess.user.is_admin
    /\ train_panel(sess) => sess.user # NoUser /\ sess.user.is_admin
    /\ main_view(sess) = "view_search_history" => sess.user # NoUser

\* C25: in every reachable session state the user-management view, the
\* password-reset-management view and the training panel are rendered only
\* while the session holds a user whose session admin flag is true, the
\* history view is rendered only while the session holds a user, and every
\* change of the session user (login, registration, logout) resets the page
\* to search.
C25_SessionRouting ==
    [][\A s \in Sessions :
          /\ Routed(session[s])
          /\ Routed(session'[s])
          /\ session'[s].user # session[s].user => session'[s].page = "search"
      ]_vars

\* C25 witness: an admin session has pressed the training button and the
\* training panel is rendered for it
C25_Witness ==
    \E s \in Sessions :
        /\ train_panel(session[s])
        /\ session[s].user.is_admin
        /\ last.op = "nav"

\* C24: the admin password reset is not atomic: when marking the request
\* Completed fails after the user's password hash was updated, the hash
\* update is not rolled back; the step ends with the target user's hash
\* overwritten and the request still Pending.
C24_ResetNotAtomic ==
    [][\A s \in Sessions, r \in 1..MaxResets, p \in TypedPasswords :
          (/\ last'.op = "update_request_failed"
           /\ TruthyStr(p)
           /\ admin_manage_password_resets_failing(s, r, p,
                  "update_request_failed", TRUE))
          => /\ users'[password_reset_requests[r].user_id].password
                    = hash_password(p)
             /\ password_reset_requests'[r].status = "Pending"
             /\ last'.msg = MsgResetError
      ]_vars

\* C24 witness: the status UPDATE of a reset of alice's password failed; her
\* row holds the digest of the password the admin typed and the request is
\* still Pending
C24_Witness ==
    /\ last.op = "update_request_failed"
    /\ last.msg = MsgResetError
    /\ last.password = "pw1"
    /\ password_reset_requests[last.id].status = "Pending"
    /\ LET user_id == password_reset_requests[last.id].user_id IN
       /\ users[user_id].username = <<"alice">>
       /\ users[user_id].password = hash_password("pw1")

\* C23: every account-store operation opens its own connection and that
\* connection is released when the operation exits, on normal return and on
\* an exception alike: no connection opened by an operation remains open
\* after the operation has finished.
C23_ConnectionReleased ==
    call.pc = "returned" => ~call.open

\* the rows of the table that hold this username
RowsNamed(tbl, username) == {i \in 1..Len(tbl) : tbl[i].username = username}

\* the call of session p returned True, that of q False, and the only row of
\* their username holds the digest of the password of p
Won(p, q) ==
    /\ call.reg[p].result = "True"
    /\ call.reg[q].result = "False"
    /\ \E i \in 1..Len(users) :
          /\ RowsNamed(users, call.reg[p].username) = {i}
          /\ users[i].password = hash_password(call.reg[p].password)

\* C27: when two sessions register the same previously unused username
\* concurrently, in any interleaving exactly one register_user call returns
\* True, the other returns False, and the users table ends with exactly one
\* row for that username holding the winner's password hash.
C27_ConcurrentRegistration ==
    \A p, q \in RegisteringSessions :
        (/\ call.fn = "register_user"
         /\ p # q
         /\ call.reg[p].at = "returned"
         /\ call.reg[q].at = "returned"
         /\ call.reg[p].username = call.reg[q].username
         /\ ~UsernameTaken(seed_admin(<<>>), call.reg[p].username, 0))
        => Won(p, q) \/ Won(q, p)

\* C27 witness: both sessions registered alice with different passwords; the
\* call of s2 returned True, that of s1 False, and the row holds the digest
\* of the password of s2
C27_Witness ==
    /\ call.fn = "register_user"
    /\ call.reg["s1"] = [at |-> "returned", username |-> <<"alice">>,
                         password |-> "admin123", result |-> "False"]
    /\ call.reg["s2"] = [at |-> "returned", username |-> <<"alice">>,
                         password |-> "pw1", result |-> "True"]
    /\ users[2].password = hash_password("pw1")

====
